---- MODULE Spec2Model ----
(***************************************************************************)
(* Stock-Price-Report-Maker: the three batch stages that share one SQLite  *)
(* file.                                                                   *)
(*   database.py    create_database, populate_stocks_table                 *)
(*   fetch_data.py  get_stocks_from_db, fetch_and_insert_data              *)
(*   charts.py      create_chart_directories, fetch_data_from_db,          *)
(*                  aggregate_ohlcv, create_candlestick_chart,             *)
(*                  generate_all_charts                                    *)
(* Stages run one at a time (pc = "idle" between runs).  The storage layer *)
(* itself is taken to be reliable; what fails is what the stages are given *)
(* from outside: a provider response (download error, malformed payload,   *)
(* a tuple that cannot be bound part-way through executemany) and the      *)
(* rendering of a chart.                                                   *)
(***************************************************************************)
EXTENDS Integers, Sequences, FiniteSets, Bags, TLC

\* ------------------------------------------------------------- bounds
\* how many entries of STOCKS_TO_TRACK the model keeps
NumStocks == 2
\* longest provider response, in rows
MaxRows == 2
\* how many Fetcher runs are recorded when the provider repeats its responses
MaxFetchRuns == 2
\* longest daily series handed to aggregate_ohlcv on its own
MaxBars == 3

VARIABLES
  dbFile,       \* os.path.exists('nse_stocks.db')
  stocks,       \* table stocks, in rowid order: <<[id, ticker, company_name]>>
  stock_data,   \* table stock_data as committed: a bag of rows
  txn,          \* the Fetcher connection's view of stock_data (committed and
                \* uncommitted rows); EmptyBag while no connection is open
  connOpen,     \* the Fetcher's connection is open
  pc,           \* "idle" | "init_populate" | "fetch_loop" | "charts_loop"
  lastRun,      \* how the stage run that ended last ended
  initDone,     \* a Schema Initializer run has ended
  stocks_list,  \* fetch_and_insert_data: the rows of get_stocks_from_db
  idx,          \* fetch_and_insert_data: position of the for loop
  pos,          \* rows of the current stock's response that executemany has taken
  requested,    \* tickers handed to yf.download in the current/last Fetcher run
  failedYet,    \* the processing of some stock raised in the current/last run
  recovered,    \* ... and a stock after it was processed up to its commit
  sawConflict,  \* some insert met a committed row of its key with other values
  pool,         \* the daily bars the provider's responses are made of
  replay,       \* the provider answers every run with the same responses
  provider,     \* those responses, by ticker (read only when replay)
  runStartData, \* stock_data when the current/last Fetcher run began (replay)
  endData,      \* stock_data at the end of each Fetcher run (replay)
  chartDirs,    \* directories under CHARTS_DIR that exist
  chartFiles,   \* chart files that exist: <<timeframe, ticker>>
  master_df,    \* generate_all_charts: the joined rows
  ci, ti,       \* generate_all_charts: positions of the two for loops
  stock_df,     \* the daily rows last handed to aggregate_ohlcv
  rule,         \* the rule last handed to aggregate_ohlcv
  agg_df,       \* what aggregate_ohlcv last returned
  written,      \* chart files written in the current/last chart run
  renderFailed  \* combinations whose rendering raised in the current/last chart run

vars == <<dbFile, stocks, stock_data, txn, connOpen, pc, lastRun, initDone,
          stocks_list, idx, pos, requested, failedYet, recovered, sawConflict,
          pool, replay, provider, runStartData, endData, chartDirs, chartFiles,
          master_df, ci, ti, stock_df, rule, agg_df, written, renderFailed>>

dbVars    == <<dbFile, stocks, stock_data>>
fetchVars == <<txn, connOpen, stocks_list, idx, pos, requested, failedYet,
               recovered, sawConflict, runStartData, endData>>
chartVars == <<chartDirs, chartFiles, master_df, ci, ti, stock_df, rule, agg_df,
               written, renderFailed>>
envVars   == <<pool, replay, provider>>

\* ------------------------------------------------------------- configuration
STOCKS_TO_TRACK ==
  << <<"RELIANCE.NS", "Reliance Industries Ltd.">>,
     <<"TCS.NS", "Tata Consultancy Services Ltd.">>,
     <<"HDFCBANK.NS", "HDFC Bank Ltd.">>,
     <<"ICICIBANK.NS", "ICICI Bank Ltd.">>,
     <<"BHARTIARTL.NS", "Bharti Airtel Ltd.">>,
     <<"SBIN.NS", "State Bank of India">>,
     <<"INFY.NS", "Infosys Ltd.">>,
     <<"HINDUNILVR.NS", "Hindustan Unilever Ltd.">>,
     <<"LT.NS", "Larsen & Toubro Ltd.">>,
     <<"BAJFINANCE.NS", "Bajaj Finance Ltd.">>,
     <<"ITC.NS", "ITC Ltd.">>,
     <<"HCLTECH.NS", "HCL Technologies Ltd.">>,
     <<"MARUTI.NS", "Maruti Suzuki India Ltd.">>,
     <<"SUNPHARMA.NS", "Sun Pharmaceutical Industries Ltd.">>,
     <<"KOTAKBANK.NS", "Kotak Mahindra Bank Ltd.">>,
     <<"M&M.NS", "Mahindra & Mahindra Ltd.">>,
     <<"AXISBANK.NS", "Axis Bank Ltd.">>,
     <<"ULTRACEMCO.NS", "UltraTech Cement Ltd.">>,
     <<"BAJAJFINSV.NS", "Bajaj Finserv Ltd.">>,
     <<"NTPC.NS", "NTPC Ltd.">> >>

\* the part of the roster the model keeps
Roster == SubSeq(STOCKS_TO_TRACK, 1, NumStocks)

Tickers == {Roster[i][1] : i \in 1..Len(Roster)}

\* ORDER BY s.ticker: the tickers in SQLite's BINARY collation
TickerOrder ==
  <<"AXISBANK.NS", "BAJAJFINSV.NS", "BAJFINANCE.NS", "BHARTIARTL.NS",
    "HCLTECH.NS", "HDFCBANK.NS", "HINDUNILVR.NS", "ICICIBANK.NS", "INFY.NS",
    "ITC.NS", "KOTAKBANK.NS", "LT.NS", "M&M.NS", "MARUTI.NS", "NTPC.NS",
    "RELIANCE.NS", "SBIN.NS", "SUNPHARMA.NS", "TCS.NS", "ULTRACEMCO.NS">>

TickerRank(t) == CHOOSE i \in 1..Len(TickerOrder) : TickerOrder[i] = t

CHARTS_DIR == "charts"

\* TIME_PERIODS, in the dict's insertion order
TIME_PERIODS == << <<"monthly", "M">>, <<"quarterly", "Q">>, <<"annual", "A">> >>

Timeframes == {TIME_PERIODS[i][1] : i \in 1..Len(TIME_PERIODS)}

\* a missing value (pandas NaN); prices and volumes are >= 0
NaN == -1

\* ------------------------------------------------------------- dates
\* a pandas Timestamp of a daily bar
Ts(y, m, d) == [y |-> y, m |-> m, d |-> d]

\* dt.strftime('%Y-%m-%d'): the text YYYY-MM-DD, kept as the number YYYYMMDD,
\* whose order is the text's order
Strftime(ts) == ts.y * 10000 + ts.m * 100 + ts.d

\* pd.to_datetime of such a text
ToDatetime(s) == [y |-> s \div 10000, m |-> (s \div 100) % 100, d |-> s % 100]

IsLeap(y) == (y % 4 = 0 /\ y % 100 # 0) \/ y % 400 = 0

DaysInMonth(y, m) ==
  IF m = 2 THEN (IF IsLeap(y) THEN 29 ELSE 28)
  ELSE IF m \in {4, 6, 9, 11} THEN 30 ELSE 31

\* ------------------------------------------------------------- sequences
SeqsUpTo(S, n) == UNION {[1..k -> S] : k \in 0..n}

RECURSIVE SeqMax(_)
SeqMax(s) ==
  IF Len(s) = 1 THEN s[1]
  ELSE LET r == SeqMax(Tail(s)) IN IF s[1] >= r THEN s[1] ELSE r

RECURSIVE SeqMin(_)
SeqMin(s) ==
  IF Len(s) = 1 THEN s[1]
  ELSE LET r == SeqMin(Tail(s)) IN IF s[1] <= r THEN s[1] ELSE r

RECURSIVE SeqSum(_)
SeqSum(s) == IF s = <<>> THEN 0 ELSE s[1] + SeqSum(Tail(s))

Column(df, c) == [i \in 1..Len(df) |-> df[i][c]]

\* ------------------------------------------------------------- storage
\* the UNIQUE key of a stock_data row
Key(r) == <<r.stock_id, r.date>>

Keys(table) == {Key(r) : r \in BagToSet(table)}

\* a plain INSERT into a table that has no UNIQUE(stock_id, date)
InsertNoUnique(table, row) == table (+) SetToBag({row})

\* INSERT OR REPLACE: the conflicting row is deleted, the new one stored
InsertOrReplace(table, row) ==
  LET kept == {r \in BagToSet(table) : Key(r) # Key(row)}
  IN  [r \in kept |-> table[r]] (+) SetToBag({row})

\* INSERT OR IGNORE INTO stock_data under UNIQUE(stock_id, date)
InsertOrIgnore(table, row) ==
  IF \E r \in BagToSet(table) : Key(r) = Key(row)
  THEN table
  ELSE table (+) SetToBag({row})

\* ------------------------------------------------------------- Schema Initializer
\* the INSERT of a roster entry that replaces the row of its ticker
InsertStockOrReplace(table, entry) ==
  LET kept == SelectSeq(table, LAMBDA r : r.ticker # entry[1])
      ids  == {table[i].id : i \in 1..Len(table)}
      next == IF ids = {} THEN 1 ELSE (CHOOSE m \in ids : \A k \in ids : k <= m) + 1
  IN  Append(kept, [id |-> next, ticker |-> entry[1], company_name |-> entry[2]])

\* INSERT OR IGNORE INTO stocks (ticker, company_name): ticker is UNIQUE, id is
\* AUTOINCREMENT
InsertStockOrIgnore(table, entry) ==
  IF \E i \in 1..Len(table) : table[i].ticker = entry[1]
  THEN table
  ELSE LET ids  == {table[i].id : i \in 1..Len(table)}
           next == IF ids = {} THEN 1
                   ELSE (CHOOSE m \in ids : \A k \in ids : k <= m) + 1
       IN  Append(table, [id |-> next, ticker |-> entry[1],
                          company_name |-> entry[2]])

RECURSIVE PopulateRows(_, _)
PopulateRows(table, n) ==
  IF n = 0 THEN table
  ELSE InsertStockOrIgnore(PopulateRows(table, n - 1), Roster[n])

\* create_database: connect creates the file; CREATE TABLE IF NOT EXISTS keeps
\* the rows of a table that exists (a missing table reads as an empty one)
create_database ==
  /\ pc = "idle"
  /\ dbFile' = TRUE
  /\ pc' = "init_populate"
  /\ UNCHANGED <<stocks, stock_data, lastRun, initDone>>
  /\ UNCHANGED <<fetchVars, chartVars, envVars>>

\* populate_stocks_table: executemany over STOCKS_TO_TRACK, then commit
populate_stocks_table ==
  /\ pc = "init_populate"
  /\ stocks' = PopulateRows(stocks, Len(Roster))
  /\ pc' = "idle"
  /\ lastRun' = "init_done"
  /\ initDone' = TRUE
  /\ UNCHANGED <<dbFile, stock_data>>
  /\ UNCHANGED <<fetchVars, chartVars, envVars>>

\* ------------------------------------------------------------- market-data provider
\* two daily bars' values, and one with a missing close
BarA(ts) == [date |-> ts, open |-> 10, high |-> 12, low |-> 9, close |-> 11,
             volume |-> 100]

BarB(ts) == [date |-> ts, open |-> 11, high |-> 15, low |-> 10, close |-> 14,
             volume |-> 200]

BarMissing(ts) == [date |-> ts, open |-> 11, high |-> 12, low |-> 10,
                   close |-> NaN, volume |-> 50]

\* the rows a response is made of when the Fetcher is looked at: one date with
\* two different values, a second date two months later, and a row with a
\* missing field
FetchPool == {BarA(Ts(2021, 1, 4)), BarB(Ts(2021, 1, 4)), BarA(Ts(2021, 3, 15)),
              BarMissing(Ts(2021, 1, 29))}

\* ... when all three stages are looked at together
StagePool == {BarA(Ts(2021, 1, 4)), BarMissing(Ts(2021, 1, 29))}

\* ... when the responses are given again run after run
ReplayPool == {BarA(Ts(2021, 1, 4)), BarB(Ts(2021, 3, 15))}

\* a row data.dropna() discards: some field is missing
HasMissing(b) ==
  b.open = NaN \/ b.high = NaN \/ b.low = NaN \/ b.close = NaN \/ b.volume = NaN

\* what yf.download and the processing of its result can come to, for one
\* stock:  kind "download_error": yf.download raises;  "malformed": the frame
\* lacks a column, the transformation raises;  "ok": rows (possibly none), of
\* which row number failAt gives a tuple that executemany cannot bind (0: all
\* can)
Responses(bars) ==
  {[kind |-> "download_error", rows |-> <<>>, failAt |-> 0],
   [kind |-> "malformed", rows |-> <<>>, failAt |-> 0]}
  \cup UNION {{[kind |-> "ok", rows |-> rs, failAt |-> k] :
                 k \in {0} \cup {n \in 1..Len(rs) : ~HasMissing(rs[n])}} :
              rs \in SeqsUpTo(bars, MaxRows)}

\* ------------------------------------------------------------- Data Fetcher
\* get_stocks_from_db: [] when the file is missing, else SELECT id, ticker
get_stocks_from_db ==
  IF ~dbFile THEN <<>>
  ELSE [i \in 1..Len(stocks) |-> [id |-> stocks[i].id, ticker |-> stocks[i].ticker]]

\* one of data_tuples: stock_id added, date as text, columns reordered
DataTuple(stock_id, b) ==
  [stock_id |-> stock_id, date |-> Strftime(b.date), open |-> b.open,
   high |-> b.high, low |-> b.low, close |-> b.close, volume |-> b.volume]

\* dropna, then executemany's step for one row of the response
ExecuteOne(table, stock_id, b) ==
  IF HasMissing(b) THEN table ELSE InsertOrIgnore(table, DataTuple(stock_id, b))

\* a handler that lets the failure of one stock end the for loop
AbortAfterFailure(i, n) == n + 1

\* except Exception: the failure is printed and the for loop goes on
AfterFailure(i, n) == i + 1

\* the stock the for loop stands at, and what the provider answers for it when
\* it repeats itself
CurStock == stocks_list[idx]
CurResponse == provider[CurStock.ticker]

\* fetch_and_insert_data when get_stocks_from_db gives nothing: it returns
fetch_no_stocks ==
  /\ pc = "idle"
  /\ get_stocks_from_db = <<>>
  /\ lastRun' = "fetch_no_stocks"
  /\ requested' = {}
  /\ failedYet' = FALSE
  /\ recovered' = FALSE
  /\ UNCHANGED <<dbVars, pc, initDone, txn, connOpen, stocks_list, idx, pos,
                 sawConflict, runStartData, endData>>
  /\ UNCHANGED <<chartVars, envVars>>

\* fetch_and_insert_data up to the for loop: the connection is opened
fetch_begin ==
  /\ pc = "idle"
  /\ Len(endData) < MaxFetchRuns
  /\ get_stocks_from_db # <<>>
  /\ stocks_list' = get_stocks_from_db
  /\ idx' = 1
  /\ pos' = 0
  /\ connOpen' = TRUE
  /\ txn' = stock_data
  /\ pc' = "fetch_loop"
  /\ requested' = {}
  /\ failedYet' = FALSE
  /\ recovered' = FALSE
  /\ runStartData' = IF replay THEN stock_data ELSE runStartData
  /\ UNCHANGED <<dbVars, lastRun, initDone, sawConflict, endData>>
  /\ UNCHANGED <<chartVars, envVars>>

\* yf.download raises, or the frame cannot be transformed: the handler, then
\* the next stock
download_fails ==
  /\ pc = "fetch_loop"
  /\ idx <= Len(stocks_list)
  /\ pos = 0
  /\ replay => CurResponse.kind # "ok"
  /\ requested' = requested \cup {CurStock.ticker}
  /\ failedYet' = TRUE
  /\ idx' = AfterFailure(idx, Len(stocks_list))
  /\ UNCHANGED <<dbVars, pc, lastRun, initDone, txn, connOpen, stocks_list, pos,
                 recovered, sawConflict, runStartData, endData>>
  /\ UNCHANGED <<chartVars, envVars>>

\* data.empty: the stock is skipped, nothing is committed
download_empty ==
  /\ pc = "fetch_loop"
  /\ idx <= Len(stocks_list)
  /\ pos = 0
  /\ replay => (CurResponse.kind = "ok" /\ CurResponse.rows = <<>>)
  /\ requested' = requested \cup {CurStock.ticker}
  /\ idx' = idx + 1
  /\ UNCHANGED <<dbVars, pc, lastRun, initDone, txn, connOpen, stocks_list, pos,
                 failedYet, recovered, sawConflict, runStartData, endData>>
  /\ UNCHANGED <<chartVars, envVars>>

\* the next row of the response goes through dropna and executemany
insert_row ==
  /\ pc = "fetch_loop"
  /\ idx <= Len(stocks_list)
  /\ pos < MaxRows
  /\ replay => /\ CurResponse.kind = "ok"
               /\ pos < Len(CurResponse.rows)
               /\ CurResponse.failAt # pos + 1
  /\ \E b \in (IF replay THEN {CurResponse.rows[pos + 1]} ELSE pool) :
       /\ txn' = ExecuteOne(txn, CurStock.id, b)
       /\ sawConflict' =
            (sawConflict \/ (~HasMissing(b) /\ \E old \in BagToSet(stock_data) :
                               /\ Key(old) = Key(DataTuple(CurStock.id, b))
                               /\ old # DataTuple(CurStock.id, b)))
  /\ pos' = pos + 1
  /\ requested' = requested \cup {CurStock.ticker}
  /\ UNCHANGED <<dbVars, pc, lastRun, initDone, connOpen, stocks_list, idx,
                 failedYet, recovered, runStartData, endData>>
  /\ UNCHANGED <<chartVars, envVars>>

\* executemany raises at the next row's tuple: the rows before it stay in the
\* connection's transaction; the handler, then the next stock
insert_raises ==
  /\ pc = "fetch_loop"
  /\ idx <= Len(stocks_list)
  /\ pos < MaxRows
  /\ replay => (CurResponse.kind = "ok" /\ CurResponse.failAt = pos + 1)
  /\ requested' = requested \cup {CurStock.ticker}
  /\ failedYet' = TRUE
  /\ idx' = AfterFailure(idx, Len(stocks_list))
  /\ pos' = 0
  /\ UNCHANGED <<dbVars, pc, lastRun, initDone, txn, connOpen, stocks_list,
                 recovered, sawConflict, runStartData, endData>>
  /\ UNCHANGED <<chartVars, envVars>>

\* executemany is through the response's rows: conn.commit(), the next stock
commit ==
  /\ pc = "fetch_loop"
  /\ idx <= Len(stocks_list)
  /\ pos >= 1
  /\ replay => (pos = Len(CurResponse.rows) /\ CurResponse.failAt = 0)
  /\ stock_data' = txn
  /\ recovered' = (recovered \/ failedYet)
  /\ idx' = idx + 1
  /\ pos' = 0
  /\ UNCHANGED <<dbFile, stocks, pc, lastRun, initDone, txn, connOpen, stocks_list,
                 requested, failedYet, sawConflict, runStartData, endData>>
  /\ UNCHANGED <<chartVars, envVars>>

\* the for loop is over: finally conn.close(), what was not committed is lost
fetch_finish ==
  /\ pc = "fetch_loop"
  /\ idx > Len(stocks_list)
  /\ connOpen' = FALSE
  /\ txn' = EmptyBag
  /\ pc' = "idle"
  /\ lastRun' = "fetch_done"
  /\ stocks_list' = <<>>
  /\ idx' = 0
  /\ endData' = IF replay THEN Append(endData, stock_data) ELSE endData
  /\ UNCHANGED <<dbVars, initDone, pos, requested, failedYet, recovered,
                 sawConflict, runStartData>>
  /\ UNCHANGED <<chartVars, envVars>>

\* ------------------------------------------------------------- Aggregator
\* the ordinal of the calendar period (rule 'M', 'Q' or 'A') a date falls in
Period(ts, r) ==
  IF r = "M" THEN ts.y * 12 + (ts.m - 1)
  ELSE IF r = "Q" THEN ts.y * 4 + ((ts.m - 1) \div 3)
  ELSE ts.y

\* the label of a period: its last day (month end, quarter end, year end)
PeriodEnd(p, r) ==
  IF r = "M" THEN Ts(p \div 12, (p % 12) + 1, DaysInMonth(p \div 12, (p % 12) + 1))
  ELSE IF r = "Q"
       THEN Ts(p \div 4, 3 * (p % 4) + 3, DaysInMonth(p \div 4, 3 * (p % 4) + 3))
       ELSE Ts(p, 12, 31)

NotNaN(s) == SelectSeq(s, LAMBDA x : x # NaN)

\* 'first': the first value that is not missing; NaN for an empty group
AggFirst(s) == IF NotNaN(s) = <<>> THEN NaN ELSE NotNaN(s)[1]

\* 'close': 'first' in place of 'last'
AggLastTakesFirst(s) == IF NotNaN(s) = <<>> THEN NaN ELSE NotNaN(s)[1]

\* 'last': the last value that is not missing; NaN for an empty group
AggLast(s) == IF NotNaN(s) = <<>> THEN NaN ELSE NotNaN(s)[Len(NotNaN(s))]

\* 'max' and 'min': NaN for an empty group
AggMax(s) == IF NotNaN(s) = <<>> THEN NaN ELSE SeqMax(NotNaN(s))

AggMin(s) == IF NotNaN(s) = <<>> THEN NaN ELSE SeqMin(NotNaN(s))

\* 'sum': 0 for an empty group
AggSum(s) == SeqSum(NotNaN(s))

\* resample(rule).apply(agg_logic) for one bin
Bin(df, r, p) ==
  LET sub == SelectSeq(df, LAMBDA row : Period(row.date, r) = p)
  IN  [date   |-> PeriodEnd(p, r),
       open   |-> AggFirst(Column(sub, "open")),
       high   |-> AggMax(Column(sub, "high")),
       low    |-> AggMin(Column(sub, "low")),
       close  |-> AggLast(Column(sub, "close")),
       volume |-> AggSum(Column(sub, "volume"))]

\* dropna(how='all'): a row goes only when every column of it is missing
DropnaAll(bars) ==
  SelectSeq(bars, LAMBDA b : ~(/\ b.open = NaN /\ b.high = NaN /\ b.low = NaN
                               /\ b.close = NaN /\ b.volume = NaN))

\* aggregate_ohlcv(df, rule): one bin per period from the earliest date's to the
\* latest date's, each folded by agg_logic, then dropna(how='all')
aggregate_ohlcv(df, r) ==
  IF df = <<>> THEN <<>>
  ELSE LET ps == {Period(df[i].date, r) : i \in 1..Len(df)}
           lo == CHOOSE p \in ps : \A q \in ps : p <= q
           hi == CHOOSE p \in ps : \A q \in ps : q <= p
       IN  DropnaAll([k \in 1..(hi - lo + 1) |-> Bin(df, r, lo + k - 1)])

\* ------------------------------------------------------------- Chart Renderer
\* the directories create_chart_directories makes
ChartDirectories ==
  {<<CHARTS_DIR>>} \cup {<<CHARTS_DIR, TIME_PERIODS[i][1]>> : i \in 1..Len(TIME_PERIODS)}

\* stock_data JOIN stocks ON s.id = d.stock_id, one joined row per stored row
JoinedRows ==
  {[ticker |-> stocks[i].ticker, company_name |-> stocks[i].company_name,
    date |-> d.date, open |-> d.open, high |-> d.high, low |-> d.low,
    close |-> d.close, volume |-> d.volume, copies |-> stock_data[d]] :
     <<i, d>> \in {x \in (1..Len(stocks)) \X BagToSet(stock_data) :
                     stocks[x[1]].id = x[2].stock_id}}

RowBefore(a, b) ==
  \/ TickerRank(a.ticker) < TickerRank(b.ticker)
  \/ a.ticker = b.ticker /\ a.date <= b.date

\* ORDER BY s.ticker, d.date
RECURSIVE OrderRows(_)
OrderRows(S) ==
  IF S = {} THEN <<>>
  ELSE LET m == CHOOSE a \in S : \A b \in S : RowBefore(a, b)
       IN  [k \in 1..m.copies |-> m] \o OrderRows(S \ {m})

\* fetch_data_from_db: None (here <<>>) when the file is missing or the query
\* gives no row; else the rows in order, date made a Timestamp
fetch_data_from_db ==
  IF ~dbFile THEN <<>>
  ELSE LET rows == OrderRows(JoinedRows)
       IN  [k \in 1..Len(rows) |->
              [ticker |-> rows[k].ticker, company_name |-> rows[k].company_name,
               date |-> ToDatetime(rows[k].date), open |-> rows[k].open,
               high |-> rows[k].high, low |-> rows[k].low,
               close |-> rows[k].close, volume |-> rows[k].volume]]

\* master_df['ticker'].unique(): in order of first appearance
RECURSIVE Unique(_)
Unique(s) ==
  IF s = <<>> THEN <<>>
  ELSE LET rest == Unique(SubSeq(s, 1, Len(s) - 1))
       IN  IF \E k \in 1..Len(rest) : rest[k] = s[Len(s)] THEN rest
           ELSE Append(rest, s[Len(s)])

StocksToChart(df) == Unique(Column(df, "ticker"))

\* master_df[master_df['ticker'] == ticker]
StockRows(df, ticker) == SelectSeq(df, LAMBDA row : row.ticker = ticker)

\* the (ticker, timeframe) the two for loops stand at
CurTicker == StocksToChart(master_df)[ci]
CurTimeframe == TIME_PERIODS[ti][1]
CurRule == TIME_PERIODS[ti][2]

\* generate_all_charts when fetch_data_from_db gives None: the directories are
\* made first, then it returns
charts_no_data ==
  /\ pc = "idle"
  /\ fetch_data_from_db = <<>>
  /\ chartDirs' = chartDirs \cup ChartDirectories
  /\ lastRun' = "charts_no_data"
  /\ written' = {}
  /\ renderFailed' = {}
  /\ UNCHANGED <<dbVars, pc, initDone, chartFiles, master_df, ci, ti,
                 stock_df, rule, agg_df>>
  /\ UNCHANGED <<fetchVars, envVars>>

\* generate_all_charts up to the for loops
charts_begin ==
  /\ pc = "idle"
  /\ fetch_data_from_db # <<>>
  /\ chartDirs' = chartDirs \cup ChartDirectories
  /\ master_df' = fetch_data_from_db
  /\ ci' = 1
  /\ ti' = 1
  /\ pc' = "charts_loop"
  /\ written' = {}
  /\ renderFailed' = {}
  /\ UNCHANGED <<dbVars, lastRun, initDone, chartFiles, stock_df,
                 rule, agg_df>>
  /\ UNCHANGED <<fetchVars, envVars>>

\* one pass of the inner for loop in which create_candlestick_chart returns (or
\* is skipped because agg_df is empty)
render_chart ==
  /\ pc = "charts_loop"
  /\ ci <= Len(StocksToChart(master_df))
  /\ stock_df' = StockRows(master_df, CurTicker)
  /\ rule' = CurRule
  /\ agg_df' = aggregate_ohlcv(stock_df', CurRule)
  /\ IF agg_df' = <<>>
     THEN UNCHANGED <<chartFiles, written>>
     ELSE /\ chartFiles' = chartFiles \cup {<<CurTimeframe, CurTicker>>}
          /\ written' = written \cup {<<CurTimeframe, CurTicker>>}
  /\ IF ti < Len(TIME_PERIODS)
     THEN ti' = ti + 1 /\ ci' = ci
     ELSE ti' = 1 /\ ci' = ci + 1
  /\ UNCHANGED <<dbVars, pc, lastRun, initDone, chartDirs, master_df,
                 renderFailed>>
  /\ UNCHANGED <<fetchVars, envVars>>

\* one pass in which create_candlestick_chart raises: nothing in
\* generate_all_charts catches it, the run ends there
render_fails ==
  /\ pc = "charts_loop"
  /\ ci <= Len(StocksToChart(master_df))
  /\ aggregate_ohlcv(StockRows(master_df, CurTicker), CurRule) # <<>>
  /\ renderFailed' = {<<CurTimeframe, CurTicker>>}
  /\ pc' = "idle"
  /\ lastRun' = "charts_crashed"
  /\ master_df' = <<>>
  /\ stock_df' = <<>>
  /\ agg_df' = <<>>
  /\ rule' = "none"
  /\ ci' = 0
  /\ ti' = 0
  /\ UNCHANGED <<dbVars, initDone, chartDirs, chartFiles, written>>
  /\ UNCHANGED <<fetchVars, envVars>>

\* the for loops are over: generate_all_charts returns
charts_finish ==
  /\ pc = "charts_loop"
  /\ ci > Len(StocksToChart(master_df))
  /\ pc' = "idle"
  /\ lastRun' = "charts_done"
  /\ master_df' = <<>>
  /\ stock_df' = <<>>
  /\ agg_df' = <<>>
  /\ rule' = "none"
  /\ ci' = 0
  /\ ti' = 0
  /\ UNCHANGED <<dbVars, initDone, chartDirs, chartFiles, written, renderFailed>>
  /\ UNCHANGED <<fetchVars, envVars>>

\* aggregate_ohlcv called on its own, for one of the TIME_PERIODS
aggregate_call ==
  /\ pc = "aggregate"
  /\ \E i \in 1..Len(TIME_PERIODS) :
       /\ rule' = TIME_PERIODS[i][2]
       /\ agg_df' = aggregate_ohlcv(stock_df, TIME_PERIODS[i][2])
  /\ UNCHANGED <<dbVars, pc, lastRun, initDone, chartDirs, chartFiles,
                 master_df, ci, ti, stock_df, written, renderFailed>>
  /\ UNCHANGED <<fetchVars, envVars>>

\* ------------------------------------------------------------- specifications
NoResponse == [kind |-> "download_error", rows |-> <<>>, failAt |-> 0]

\* before the first run of any stage: no database file, no chart directory
Blank ==
  /\ dbFile = FALSE
  /\ stocks = <<>>
  /\ stock_data = EmptyBag
  /\ txn = EmptyBag
  /\ connOpen = FALSE
  /\ lastRun = "none"
  /\ initDone = FALSE
  /\ stocks_list = <<>>
  /\ idx = 0
  /\ pos = 0
  /\ requested = {}
  /\ failedYet = FALSE
  /\ recovered = FALSE
  /\ sawConflict = FALSE
  /\ runStartData = EmptyBag
  /\ endData = <<>>
  /\ chartDirs = {}
  /\ chartFiles = {}
  /\ master_df = <<>>
  /\ ci = 0
  /\ ti = 0
  /\ rule = "none"
  /\ agg_df = <<>>
  /\ written = {}
  /\ renderFailed = {}

Initializer == create_database \/ populate_stocks_table

Fetcher ==
  \/ fetch_no_stocks
  \/ fetch_begin
  \/ download_fails
  \/ download_empty
  \/ insert_row
  \/ insert_raises
  \/ commit
  \/ fetch_finish

Charts ==
  \/ charts_no_data
  \/ charts_begin
  \/ render_chart
  \/ render_fails
  \/ charts_finish

\* the three stages, run in any order and any number of times
Init ==
  /\ Blank
  /\ pc = "idle"
  /\ stock_df = <<>>
  /\ pool = StagePool
  /\ replay = FALSE
  /\ provider = [t \in Tickers |-> NoResponse]

Next == Initializer \/ Fetcher \/ Charts

Spec == Init /\ [][Next]_vars

\* the Schema Initializer and the Data Fetcher, with the richer responses
InitFetch ==
  /\ Blank
  /\ pc = "idle"
  /\ stock_df = <<>>
  /\ pool = FetchPool
  /\ replay = FALSE
  /\ provider = [t \in Tickers |-> NoResponse]

NextFetch == Initializer \/ Fetcher

SpecFetch == InitFetch /\ [][NextFetch]_vars

\* the Schema Initializer has run; the Fetcher is run again and again while the
\* provider gives the same response for a ticker in every run
InitReplay ==
  /\ dbFile = TRUE
  /\ stocks = PopulateRows(<<>>, Len(Roster))
  /\ stock_data = EmptyBag
  /\ txn = EmptyBag
  /\ connOpen = FALSE
  /\ pc = "idle"
  /\ lastRun = "init_done"
  /\ initDone = TRUE
  /\ stocks_list = <<>>
  /\ idx = 0
  /\ pos = 0
  /\ requested = {}
  /\ failedYet = FALSE
  /\ recovered = FALSE
  /\ sawConflict = FALSE
  /\ pool = ReplayPool
  /\ replay = TRUE
  /\ provider \in [Tickers -> Responses(ReplayPool)]
  /\ runStartData = EmptyBag
  /\ endData = <<>>
  /\ chartDirs = {}
  /\ chartFiles = {}
  /\ master_df = <<>>
  /\ ci = 0
  /\ ti = 0
  /\ stock_df = <<>>
  /\ rule = "none"
  /\ agg_df = <<>>
  /\ written = {}
  /\ renderFailed = {}

NextReplay ==
  \/ fetch_begin
  \/ download_fails
  \/ download_empty
  \/ insert_row
  \/ insert_raises
  \/ commit
  \/ fetch_finish

SpecReplay == InitReplay /\ [][NextReplay]_vars

\* the daily bars aggregate_ohlcv is tried on: values and dates
BarC(ts) == [date |-> ts, open |-> 14, high |-> 14, low |-> 8, close |-> 9,
             volume |-> 0]

AggDates == {Ts(2021, 1, 4), Ts(2021, 1, 29), Ts(2021, 3, 15), Ts(2021, 8, 2),
             Ts(2021, 12, 31), Ts(2023, 2, 10)}

AggBars == {BarA(d) : d \in AggDates} \cup {BarB(d) : d \in AggDates}
           \cup {BarC(d) : d \in AggDates}

\* one stock's rows as fetch_data_from_db orders them: dates strictly ascending
AggInputs ==
  {[i \in 1..Len(s) |->
      [ticker |-> Roster[1][1], company_name |-> Roster[1][2], date |-> s[i].date,
       open |-> s[i].open, high |-> s[i].high, low |-> s[i].low,
       close |-> s[i].close, volume |-> s[i].volume]] :
     s \in {q \in SeqsUpTo(AggBars, MaxBars) :
              /\ Len(q) >= 1
              /\ \A i \in 1..(Len(q) - 1) :
                   Strftime(q[i].date) < Strftime(q[i + 1].date)}}

InitAgg ==
  /\ Blank
  /\ pc = "aggregate"
  /\ stock_df \in AggInputs
  /\ pool = {}
  /\ replay = FALSE
  /\ provider = [t \in Tickers |-> NoResponse]

NextAgg == aggregate_call

SpecAgg == InitAgg /\ [][NextAgg]_vars

\* ------------------------------------------------------------- properties
\* a table in which no (stock_id, date) is held by two rows
UniqueKeys(table) ==
  \A r \in BagToSet(table) :
    /\ CopiesIn(r, table) = 1
    /\ \A q \in BagToSet(table) : Key(q) = Key(r) => q = r

\* C1: whatever the Initializer and the Fetcher have run and whatever the
\* provider answered, stock_data holds at most one row per (stock, date), in
\* what is committed and in what the open connection sees.
C1_OneBarPerStockDate == UniqueKeys(stock_data) /\ UniqueKeys(txn)

\* a Fetcher run has ended in which an insert met a row of its own (stock,
\* date), committed by an earlier run with other values
C1_RepeatedDateSeen ==
  /\ sawConflict
  /\ pc = "idle"
  /\ lastRun = "fetch_done"
  /\ stock_data # EmptyBag

\* C2: with the provider giving the same responses run after run, each
\* Fetcher run after the first leaves stock_data exactly as the run before
\* it left it.
C2_RerunAddsNothing ==
  \A k \in 2..Len(endData) : endData[k] = endData[k - 1]

\* two runs have ended and the first one stored rows
C2_SecondRunEnded ==
  /\ Len(endData) >= 2
  /\ endData[1] # EmptyBag
  /\ pc = "idle"

\* the positions of df whose date falls in period p
InBucket(df, r, p) == {i \in 1..Len(df) : Period(df[i].date, r) = p}

\* the periods that hold a row of df
Buckets(df, r) == {Period(df[i].date, r) : i \in 1..Len(df)}

RECURSIVE VolumeOf(_, _)
VolumeOf(df, I) ==
  IF I = {} THEN 0
  ELSE LET i == CHOOSE x \in I : TRUE IN df[i].volume + VolumeOf(df, I \ {i})

\* a bar is the fold of the rows of df at the positions I
IsFoldOf(bar, df, I) ==
  /\ \E i \in I : /\ \A j \in I : Strftime(df[i].date) <= Strftime(df[j].date)
                  /\ bar.open = df[i].open
  /\ \E i \in I : /\ \A j \in I : Strftime(df[j].date) <= Strftime(df[i].date)
                  /\ bar.close = df[i].close
  /\ \E i \in I : bar.high = df[i].high
  /\ \A i \in I : bar.high >= df[i].high
  /\ \E i \in I : bar.low = df[i].low
  /\ \A i \in I : bar.low <= df[i].low
  /\ bar.volume = VolumeOf(df, I)

\* C3: for a non-empty date-ascending series and each rule, every period that
\* holds rows has exactly one bar in the result, and that bar is the fold of
\* exactly those rows: open of the first, close of the last, highest high,
\* lowest low, summed volume; a one-row series gives one bar with that row's
\* values.
C3_BarIsFoldOfItsBucket ==
  rule # "none" =>
    /\ \A p \in Buckets(stock_df, rule) :
         LET bars == {k \in 1..Len(agg_df) : Period(agg_df[k].date, rule) = p}
         IN  /\ Cardinality(bars) = 1
             /\ \A k \in bars : IsFoldOf(agg_df[k], stock_df, InBucket(stock_df, rule, p))
    /\ Len(stock_df) = 1 =>
         /\ Len(agg_df) = 1
         /\ agg_df[1].open = stock_df[1].open
         /\ agg_df[1].high = stock_df[1].high
         /\ agg_df[1].low = stock_df[1].low
         /\ agg_df[1].close = stock_df[1].close
         /\ agg_df[1].volume = stock_df[1].volume

\* a quarterly aggregation in which one quarter holds several rows whose closes
\* differ, and another quarter holds rows too
C3_BucketOfSeveralRows ==
  /\ rule = "Q"
  /\ Cardinality(Buckets(stock_df, rule)) >= 2
  /\ \E p \in Buckets(stock_df, rule) :
       \E i, j \in InBucket(stock_df, rule, p) :
         i < j /\ stock_df[i].close # stock_df[j].close

\* C4: the result holds exactly one bar per period that holds rows, in
\* chronological order, and no bar for a period that holds none.
C4_NoBarForEmptyBucket ==
  rule # "none" =>
    /\ Len(agg_df) = Cardinality(Buckets(stock_df, rule))
    /\ \A k \in 1..Len(agg_df) :
         Period(agg_df[k].date, rule) \in Buckets(stock_df, rule)
    /\ \A k \in 1..(Len(agg_df) - 1) :
         Strftime(agg_df[k].date) < Strftime(agg_df[k + 1].date)

\* C5: in a Fetcher run the failure of a stock never ends the for loop: the
\* stocks requested so far are exactly those before the loop's position (and
\* the one being processed), the loop can always go on or end, and a run that
\* has ended has requested every stock of the table and closed its connection.
C5_FailureDoesNotAbortBatch ==
  /\ pc = "fetch_loop" =>
       /\ connOpen
       /\ idx <= Len(stocks_list) + 1
       /\ requested = {stocks_list[i].ticker :
                         i \in 1..(IF pos > 0 THEN idx ELSE idx - 1)}
       /\ ENABLED Fetcher
  /\ (pc = "idle" /\ lastRun = "fetch_done") =>
       /\ requested = {stocks[i].ticker : i \in 1..Len(stocks)}
       /\ ~connOpen

\* a run has ended in which a stock failed and a stock after it was processed
\* up to its commit, and rows are stored
C5_LaterStockProcessed ==
  /\ pc = "idle"
  /\ lastRun = "fetch_done"
  /\ recovered
  /\ stock_data # EmptyBag

\* the tickers that have rows to chart
ChartableTickers == {j.ticker : j \in JoinedRows}

\* C6: when a chart run is over, every (ticker, timeframe) that has rows,
\* other than one whose rendering failed, has had its chart file written in
\* that run.
C6_RenderFailureIsolated ==
  (pc = "idle" /\ lastRun \in {"charts_done", "charts_crashed"}) =>
    \A t \in ChartableTickers : \A f \in Timeframes :
      <<f, t>> \notin renderFailed => <<f, t>> \in written

\* the keys of the rows prepared for a stock in a run of the replayed provider
PreparedKeys(i) ==
  LET r == provider[stocks[i].ticker]
  IN  {Key(DataTuple(stocks[i].id, r.rows[j])) :
         j \in {n \in 1..Len(r.rows) : ~HasMissing(r.rows[n])}}

\* the processing of a stock raises under the replayed provider
Fails(i) ==
  LET r == provider[stocks[i].ticker] IN r.kind # "ok" \/ r.failAt > 0

\* C7: when a Fetcher run is over, of the rows prepared for a stock that were
\* not present when the run began either all are stored or none is, and none
\* is when the processing of that stock failed.
C7_NoStockHalfWritten ==
  (pc = "idle" /\ lastRun = "fetch_done") =>
    \A i \in 1..Len(stocks) :
      LET new  == PreparedKeys(i) \ Keys(runStartData)
          kept == new \cap Keys(stock_data)
      IN  /\ kept = new \/ kept = {}
          /\ Fails(i) => kept = {}

\* the stocks table as the first Initializer run leaves it
RosterRows ==
  [i \in 1..Len(Roster) |->
     [id |-> i, ticker |-> Roster[i][1], company_name |-> Roster[i][2]]]

\* C8: once an Initializer run has ended, the stocks table is the roster, one
\* row per ticker with the id it first got, in every later state: no run of
\* any stage adds, changes or deletes a row of it.
C8_StocksFixedAfterInit == initDone => stocks = RosterRows

\* after an Initializer run the Fetcher has stored rows and the chart stage
\* has written charts, and the Initializer has then run again
C8_AllStagesRanAfterInit ==
  /\ pc = "idle"
  /\ lastRun = "init_done"
  /\ stock_data # EmptyBag
  /\ chartFiles # {}

\* C9: a committed stock_data row stays, with its values, in every step: the
\* row is still there afterwards and is the only row of its (stock, date).
C9_BarNeverUpdated ==
  [][\A r \in BagToSet(stock_data) :
       /\ BagIn(r, stock_data')
       /\ \A q \in BagToSet(stock_data') : Key(q) = Key(r) => q = r]_vars

\* a later response brought other values for the one (stock, date) that is
\* stored, and the stored row has the values it was first given
C9_ConflictingValuesOffered ==
  /\ sawConflict
  /\ lastRun = "fetch_done"
  /\ BagToSet(stock_data) =
       {[stock_id |-> 1, date |-> 20210104, open |-> 10, high |-> 12, low |-> 9,
         close |-> 11, volume |-> 100]}

\* C10: while the database file does not exist, no stage has done any work:
\* no file, no request to the provider, no row, no open connection, no chart
\* directory and no chart file.
C10_NoWorkWithoutDatabase ==
  ~dbFile =>
    /\ requested = {}
    /\ stock_data = EmptyBag
    /\ ~connOpen
    /\ chartDirs = {}
    /\ chartFiles = {}

====
